---------------------------- MODULE Spec2Model ----------------------------
(***************************************************************************)
(* A model of sum_pipe.py: a tar stream arrives on a forward-only input,   *)
(* is optionally mirrored to standard output (IOTee), and for every        *)
(* regular-file member one Triage record (size, digest of the first 512    *)
(* bytes, digest of the whole content, name) is written to the record      *)
(* sink.                                                                   *)
(*                                                                         *)
(* Bytes are integers 0..255; streams, names and records are sequences of  *)
(* bytes.  The tarfile library calls made by the program (tarfile.open,    *)
(* tf.next, tf.extractfile and the reads of the returned file object) are  *)
(* modelled at the call sites by what CPython's tarfile does in stream     *)
(* mode ('r|') with ignore_zeros=True.  hashlib's digests are modelled by  *)
(* an incremental position-weighted sum: what matters here is which        *)
(* bytes are fed to which accumulator, in which order and chunking.        *)
(* The gzip and bzip2 filters are not modelled (args.gzip = args.bzip2 =   *)
(* FALSE).                                                                 *)
(***************************************************************************)
EXTENDS Integers, Sequences, FiniteSets, Bags, TLC

(***************************************************************************)
(* Bounds of the model.                                                    *)
(***************************************************************************)
\* The longest archive drawn: members and stray zero blocks, before the trailer.
MaxItems == 2

\* The runs of the program made one after the other against the same output
\* file and the same input.
MaxRuns == 2

(***************************************************************************)
(* Constants of the program and of the libraries it calls.                 *)
(***************************************************************************)
\* tarfile.BLOCKSIZE: the unit of headers and padding.
BLOCKSIZE == 512
\* The size of the dedicated first read of GetTriageLine.
FIRST_READ == 512
\* The size of every later payload read of GetTriageLine.
CHUNK_READ == 65535
\* bufsize handed to tarfile.open: the unit in which the stream reads its input.
BUFSIZE == 65535
\* io.DEFAULT_BUFFER_SIZE: the read-ahead of the file object tf.extractfile returns.
READAHEAD == 8192

\* Type flags of a tar header (ASCII).
REGTYPE == 48
DIRTYPE == 53
\* A type flag tarfile does not know: the member is skipped like a file's data.
UNKTYPE == 81
\* tarfile.REGULAR_TYPES: REGTYPE, AREGTYPE, CONTTYPE, GNUTYPE_SPARSE.
REGULAR_TYPES == {48, 0, 55, 83}
\* tarfile.SUPPORTED_TYPES.
SUPPORTED_TYPES == {48, 0, 49, 50, 53, 54, 55, 51, 52, 76, 75, 83}

TAB == 9
NL == 10
NUL == 0
SPACE == 32

(***************************************************************************)
(* Sequences of bytes.                                                     *)
(***************************************************************************)
Zeros(n) == [i \in 1..n |-> 0]

\* The element of a one-element set.  In { e(x) : x \in {v} } the value v is
\* worked out once, however often e uses it.
The(S) == CHOOSE x \in S : TRUE

Min(a, b) == IF a <= b THEN a ELSE b

\* s[lo..hi], empty when hi < lo, cut at the end of s.
Slice(s, lo, hi) == SubSeq(s, lo, Min(hi, Len(s)))

\* The sum of a sequence of bytes: the size of the bag holding i s[i] + 1 times,
\* less its length.
Sum(s) == BagCardinality([i \in 1..Len(s) |-> s[i] + 1]) - Len(s)

RECURSIVE Flatten(_)
\* The concatenation of a sequence of byte strings.
Flatten(ss) == IF ss = <<>> THEN <<>> ELSE Head(ss) \o Flatten(Tail(ss))

(***************************************************************************)
(* hashlib, modelled: an accumulator holds the number n of bytes fed and a *)
(* sum h to which the i-th byte b fed adds i * (b + 1), modulo HASH_MOD;   *)
(* hexdigest prints h in four hexadecimal digits.  The digest depends on   *)
(* which bytes were fed and in which order, not on how they were chunked.  *)
(***************************************************************************)
HASH_MOD == 65521

\* hashlib.new(algo)
HashNew == [n |-> 0, h |-> 0]

\* h.update(data)
HashUpdate(acc, data) ==
  [n |-> acc.n + Len(data),
   h |-> (acc.h + BagCardinality([j \in 1..Len(data) |-> (acc.n + j) * (data[j] + 1)]))
           % HASH_MOD]

HexDigit(d) == IF d < 10 THEN 48 + d ELSE 87 + d

\* h.hexdigest(): lower-case hexadecimal, fixed width
HexDigest(acc) ==
  << HexDigit(acc.h \div 4096), HexDigit((acc.h \div 256) % 16),
     HexDigit((acc.h \div 16) % 16), HexDigit(acc.h % 16) >>


(***************************************************************************)
(* str and bytes.  A str is a sequence of code points.  tarfile decodes a  *)
(* header's name with utf-8 and surrogateescape, os.fsencode encodes the   *)
(* record the same way (one- and two-byte forms are modelled; any other    *)
(* byte above 127 is escaped to U+DC00 + byte and restored on encoding).   *)
(***************************************************************************)
RECURSIVE Utf8Decode(_)
Utf8Decode(b) ==
  IF b = <<>> THEN <<>>
  ELSE IF b[1] < 128 THEN <<b[1]>> \o Utf8Decode(Tail(b))
  ELSE IF b[1] \in 194..223 /\ Len(b) >= 2 /\ b[2] \in 128..191
       THEN <<(b[1] - 192) * 64 + (b[2] - 128)>> \o Utf8Decode(Tail(Tail(b)))
  ELSE <<56320 + b[1]>> \o Utf8Decode(Tail(b))

\* The bytes of one code point under os.fsencode.
FsEncodeChar(cp) ==
  IF cp < 128 THEN <<cp>>
  ELSE IF cp < 2048 THEN <<192 + (cp \div 64), 128 + (cp % 64)>>
  ELSE <<cp - 56320>>

RECURSIVE FsEncode(_)
\* os.fsencode(str)
FsEncode(str) ==
  IF str = <<>> THEN <<>> ELSE FsEncodeChar(Head(str)) \o FsEncode(Tail(str))

RECURSIVE Decimal(_)
\* '%s' % n for an int n >= 0
Decimal(n) == IF n < 10 THEN <<48 + n>> ELSE Decimal(n \div 10) \o <<48 + (n % 10)>>

(***************************************************************************)
(* The tar format, as tarfile reads it.  A header is one block: the name   *)
(* (NUL-terminated) at offset 0, the size in octal at 124..135, the        *)
(* checksum in octal at 148..155, the type flag at 156.  The fields this   *)
(* program never looks at (mode, owner, times, magic) are left zero, which *)
(* tarfile accepts.                                                        *)
(***************************************************************************)
RECURSIVE Pow(_, _)
Pow(b, n) == IF n = 0 THEN 1 ELSE b * Pow(b, n - 1)

\* n in octal, width digits (ASCII)
Octal(n, width) == [i \in 1..width |-> 48 + ((n \div Pow(8, width - i)) % 8)]

\* TarInfo._block: count rounded up to whole blocks
\* A variant of Block that does not round up.
BlockExact(count) == count

Block(count) ==
  IF count % BLOCKSIZE = 0 THEN count
  ELSE ((count \div BLOCKSIZE) + 1) * BLOCKSIZE

\* The header bytes with the checksum field taken as eight spaces, summed:
\* tarfile.calc_chksums, unsigned and signed.
CalcChksums(buf) ==
  LET unsigned == 256 + Sum(SubSeq(buf, 1, 148)) + Sum(SubSeq(buf, 157, BLOCKSIZE))
      high == Cardinality({i \in (1..148) \cup (157..BLOCKSIZE) : buf[i] >= 128})
  IN {unsigned, unsigned - 256 * high}

\* What a tar writer stores for a member: the header block, its checksum the
\* unsigned sum of its bytes.
HeaderBlock(name, size, type) ==
  [i \in 1..BLOCKSIZE |->
     IF i <= Len(name) THEN name[i]
     ELSE IF i \in 125..135 THEN Octal(size, 11)[i - 124]
     ELSE IF i \in 149..154
          THEN Octal(256 + Sum(name) + Sum(Octal(size, 11)) + type, 6)[i - 148]
     ELSE IF i = 156 THEN SPACE
     ELSE IF i = 157 THEN type
     ELSE 0]

RECURSIVE Nts(_)
\* tarfile.nts: the bytes before the first NUL
Nts(b) == IF b = <<>> \/ b[1] = NUL THEN <<>> ELSE <<b[1]>> \o Nts(Tail(b))

IsSpace(ch) == ch \in {9, 10, 11, 12, 13, 32}

RECURSIVE LStrip(_)
LStrip(b) == IF b # <<>> /\ IsSpace(b[1]) THEN LStrip(Tail(b)) ELSE b

RECURSIVE RStrip(_)
RStrip(b) ==
  IF b # <<>> /\ IsSpace(b[Len(b)]) THEN RStrip(SubSeq(b, 1, Len(b) - 1)) ELSE b

\* int(s, 8) of a string of octal digits
OctVal(d) == Sum([i \in 1..Len(d) |-> (d[i] - 48) * Pow(8, Len(d) - i)])

\* A number no header field of this model reaches: what a base-256 field with a
\* byte set above its low three stands for.
HUGE == 16777216

\* tarfile.nti: a number field; -1 stands for the ValueError that makes the header
\* invalid.  A field starting with 0o200 is GNU base-256 (one starting with 0o377 is
\* a negative number, which no checksum equals: -1 here).  Python's int() also
\* accepts a sign and underscores, which no block of this model holds.
Nti(field) ==
  IF field[1] = 255 THEN -1
  ELSE IF field[1] = 128
  THEN LET n == Len(field)
       IN IF \E i \in 2..(n - 3) : field[i] # 0 THEN HUGE
          ELSE field[n - 2] * 65536 + field[n - 1] * 256 + field[n]
  ELSE The({ IF \A i \in 1..Len(s) : s[i] \in 48..55 THEN OctVal(s) ELSE -1 :
                s \in {RStrip(LStrip(Nts(field)))} })

\* TarInfo.frombuf: one block decoded, or the error tarfile raises for it.
FromBuf(buf) ==
  IF Len(buf) = 0 THEN [err |-> "EmptyHeaderError"]
  ELSE IF Len(buf) # BLOCKSIZE THEN [err |-> "TruncatedHeaderError"]
  ELSE IF \A i \in 1..BLOCKSIZE : buf[i] = NUL THEN [err |-> "EOFHeaderError"]
  ELSE LET chksum == Nti(SubSeq(buf, 149, 156))
           size == Nti(SubSeq(buf, 125, 136))
       IN IF chksum \notin CalcChksums(buf) \/ size < 0
          THEN [err |-> "InvalidHeaderError"]
          ELSE [err |-> "", name |-> Utf8Decode(Nts(SubSeq(buf, 1, 100))),
                size |-> size, type |-> buf[157]]

(***************************************************************************)
(* The archives the model is run on.  An item is a member (header, data,   *)
(* padding) or a stray zero block; an archive is up to MaxItems items and  *)
(* a trailer of zero blocks (two in an archive written by tar, none in a   *)
(* stream cut at a header boundary).                                       *)
(***************************************************************************)
\* The payload of a member: size bytes, none of them zero.
Payload(seed, size) == [i \in 1..size |-> ((i * 7 + seed) % 250) + 1]

\* "a.txt", a name with a tab in it, a two-byte utf-8 name
NameA == <<97, 46, 116, 120, 116>>
NameTab == <<98, 9, 99>>
NameUtf == <<195, 169>>

Member(type, name, size) == [zero |-> FALSE, type |-> type, name |-> name, size |-> size]
ZeroItem == [zero |-> TRUE, type |-> 0, name |-> <<>>, size |-> 0]

Items ==
  { Member(REGTYPE, NameUtf, 0), Member(REGTYPE, NameA, 5),
    Member(REGTYPE, <<101>>, 512), Member(REGTYPE, NameTab, 513),
    Member(DIRTYPE, <<100>>, 0), Member(UNKTYPE, <<113>>, 5), ZeroItem }

ItemBytes(it) ==
  IF it.zero THEN Zeros(BLOCKSIZE)
  ELSE HeaderBlock(it.name, it.size, it.type)
         \o Payload(it.size + Len(it.name), it.size)
         \o Zeros((BLOCKSIZE - (it.size % BLOCKSIZE)) % BLOCKSIZE)

RECURSIVE ItemsBytes(_)
ItemsBytes(items) ==
  IF items = <<>> THEN <<>> ELSE ItemBytes(Head(items)) \o ItemsBytes(Tail(items))

ArchiveBytes(a) == ItemsBytes(a.items) \o Zeros(a.trailer * BLOCKSIZE)

Archives ==
  { [items |-> its, trailer |-> t] :
      its \in UNION { [1..n -> Items] : n \in 0..MaxItems }, t \in {0, 2} }


(***************************************************************************)
(* The state of the program.                                               *)
(***************************************************************************)
VARIABLES
  args,           \* the parsed command line
  archive,        \* the archive fed to standard input, as items
  input,          \* its bytes: the input transport
  in_pos,         \* bytes the program has read from the input transport
  stdout,         \* the writes that reached sys.stdout.buffer, in order
  stdout_text,    \* text print() left pending in sys.stdout
  stderr,         \* messages written to sys.stderr
  out_file,       \* the file at args.output: [exists, content]
  input_fd,       \* "stdin" or "IOTee"
  delimiter,      \* the record delimiter
  triage_fd,      \* "none", "stdout" or "file"
  triage_writes,  \* the arguments of every triage_fd.write so far
  pc,             \* where the program is
  exc,            \* the exception that ended the run, "" when none
  tf_offset,      \* TarFile.offset: where the next header is expected
  tf_pos,         \* the stream's position: bytes tarfile has consumed
  tf_firstmember, \* TarFile.firstmember
  tf_members,     \* TarFile.members
  next_file,      \* the member at hand, or None
  files_seen, bytes_seen, files_skipped,
  fileobj,        \* the reader handed to GetTriageLine: "ExFileObject" or "raw"
  fo_pos,         \* payload bytes the reader has returned
  first_hash, full_hash, c,
  line,           \* the str GetTriageLine returned
  runs            \* what out_file held at the end of each earlier run

mainVars == <<args, archive, input, input_fd, delimiter, runs>>
outVars == <<stdout_text, stderr, out_file, triage_fd, triage_writes>>
tarVars == <<tf_offset, tf_firstmember, tf_members>>
countVars == <<files_seen, bytes_seen, files_skipped>>
gtlVars == <<fileobj, fo_pos, first_hash, full_hash, c, line>>
vars == <<mainVars, outVars, tarVars, countVars, gtlVars,
          in_pos, stdout, pc, exc, tf_pos, next_file>>

None == [none |-> TRUE]

\* What is at args.output before the run, when it exists: "old\n"
OldContent == <<111, 108, 100, 10>>

\* args.output as print() writes it: "-" or "sums.out"
OutputName(output) ==
  IF output = "-" THEN <<45>> ELSE <<115, 117, 109, 115, 46, 111, 117, 116>>

\* ParseArgs: --overwrite_sum and --append exclude each other; --output is required.
ArgSets ==
  { a \in [sink : BOOLEAN, null : BOOLEAN, output : {"-", "sums.out"},
           overwrite_sum : BOOLEAN, append : BOOLEAN] :
      /\ ~(a.overwrite_sum /\ a.append)
      /\ a.output = "-" => ~a.overwrite_sum /\ ~a.append }


(***************************************************************************)
(* The input side: the stream tarfile reads through input_fd.              *)
(***************************************************************************)
RECURSIVE FillTo(_, _)
\* The stream fills its buffer by input_fd.read(BUFSIZE) until it holds the
\* bytes up to `want` or the input ends: the input position afterwards.
FillTo(pos, want) ==
  IF pos >= want \/ pos >= Len(input) THEN pos
  ELSE FillTo(Min(pos + BUFSIZE, Len(input)), want)

\* A write of `data` to standard output, and the write IOTee.read makes of the
\* bytes it has just read, kept as the range of the input they are.
WriteOf(data) == [from |-> 0, to |-> 0, data |-> data]
CopyOf(from, to) == [from |-> from, to |-> to, data |-> <<>>]

\* The bytes of a write.
WriteBytes(w) == IF w.to > w.from THEN SubSeq(input, w.from + 1, w.to) ELSE w.data

\* IOTee.read: what was read from the input is also written to target_fd.
TeeWrite(out, from, to) ==
  IF input_fd = "IOTee" /\ to > from THEN Append(out, CopyOf(from, to)) ELSE out

\* The bytes standard output has received.
StdoutBytes == Flatten([i \in 1..Len(stdout) |-> WriteBytes(stdout[i])])

\* TarInfo.isreg
\* A variant of IsReg that takes every member but a directory for a file.
IsRegNotDir(tarinfo) == tarinfo.type # DIRTYPE

IsReg(tarinfo) == tarinfo.type \in REGULAR_TYPES

\* TarInfo._proc_builtin: where the header after this member is expected.
NextOffset(offset_data, tarinfo) ==
  IF IsReg(tarinfo) \/ tarinfo.type \notin SUPPORTED_TYPES
  THEN offset_data + Block(tarinfo.size)
  ELSE offset_data

RECURSIVE ReadHeader(_, _)
\* A variant of ReadHeader that reads as ignore_zeros=False does: a zero block
\* ends the member sequence.
ReadHeaderStopAtZero(pos, offset) ==
  LET buf == Slice(input, pos + 1, pos + BLOCKSIZE)
      h == FromBuf(buf)
      end == pos + Len(buf)
  IN IF h.err = "EOFHeaderError"
     THEN [ret |-> None, pos |-> end, offset |-> offset + BLOCKSIZE,
           want |-> pos + BLOCKSIZE, exc |-> ""]
     ELSE IF h.err # ""
     THEN [ret |-> None, pos |-> end, offset |-> offset, want |-> pos + BLOCKSIZE,
           exc |-> IF offset = 0 THEN "ReadError" ELSE ""]
     ELSE LET ti == [name |-> h.name, size |-> h.size, type |-> h.type,
                     offset |-> pos, offset_data |-> end]
          IN [ret |-> ti, pos |-> end, offset |-> NextOffset(end, ti),
              want |-> end, exc |-> ""]

\* The loop of TarFile.next: blocks are read from the stream position on; with
\* ignore_zeros=True a zero block or an invalid header is passed over.  `want` is
\* the highest stream position the reads asked for.  (The block and what it
\* decodes to are bound as values: each is worked out once.)
RECURSIVE HeaderRead(_, _, _, _)
ReadHeader(pos, offset) ==
  The(UNION { { HeaderRead(pos, offset, pos + Len(buf), h) : h \in {FromBuf(buf)} } :
              buf \in {Slice(input, pos + 1, pos + BLOCKSIZE)} })

\* What TarFile.next does with the block read at pos, decoded as h; the stream
\* is at `end` after the read.
HeaderRead(pos, offset, end, h) ==
  CASE h.err \in {"EOFHeaderError", "InvalidHeaderError"} ->
            ReadHeader(end, offset + BLOCKSIZE)
       [] h.err \in {"EmptyHeaderError", "TruncatedHeaderError"} ->
            [ret |-> None, pos |-> end, offset |-> offset, want |-> pos + BLOCKSIZE,
             exc |-> IF offset = 0 THEN "ReadError" ELSE ""]
       [] OTHER ->
            LET ti == [name |-> h.name, size |-> h.size, type |-> h.type,
                       offset |-> pos, offset_data |-> end]
            IN [ret |-> ti, pos |-> end, offset |-> NextOffset(end, ti),
                want |-> end, exc |-> ""]

\* TarFile.next
TarFileNext ==
  IF tf_firstmember # None
  THEN [ret |-> tf_firstmember, pos |-> tf_pos, offset |-> tf_offset,
        want |-> tf_pos, exc |-> ""]
  ELSE IF tf_offset # tf_pos /\ tf_offset = 0
  THEN [ret |-> None, pos |-> tf_pos, offset |-> tf_offset,
        want |-> tf_pos, exc |-> ""]
  ELSE IF tf_offset # tf_pos /\ tf_offset - 1 < tf_pos
  THEN \* _Stream.seek: seeking backwards is not allowed
       [ret |-> None, pos |-> tf_pos, offset |-> tf_offset,
        want |-> tf_pos, exc |-> "StreamError"]
  ELSE IF tf_offset # tf_pos /\ tf_offset > Len(input)
  THEN \* seek(offset - 1) ran into the end; read(1) returned nothing
       [ret |-> None, pos |-> Len(input), offset |-> tf_offset,
        want |-> tf_offset, exc |-> "ReadError"]
  ELSE ReadHeader(tf_offset, tf_offset)

(***************************************************************************)
(* The output side.                                                        *)
(***************************************************************************)
\* The open mode Main selects for an output file, or the exception it raises.
\* (RuntimeException is not a name Python defines: reaching that raise would be a
\* NameError.)
\* A variant of OpenMode without the test of lines 188-192.
OpenModeUnguarded(exists, overwrite_sum, append) ==
  IF exists
  THEN IF append THEN "ab"
       ELSE IF overwrite_sum THEN "wb"
       ELSE "NameError"
  ELSE "wb"

OpenMode(exists, overwrite_sum, append) ==
  IF exists
  THEN IF ~overwrite_sum /\ ~append THEN "FileExistsError"
       ELSE IF append THEN "ab"
       ELSE IF overwrite_sum THEN "wb"
       ELSE "NameError"
  ELSE "wb"

\* A variant of OpenFile that truncates in every mode.
OpenFileTruncates(f, mode) == [exists |-> TRUE, content |-> <<>>]

\* open(path, mode)
OpenFile(f, mode) ==
  IF mode = "ab" /\ f.exists THEN f ELSE [exists |-> TRUE, content |-> <<>>]

\* The Triage line: size, digest of the first read, digest of all, name.
\* A variant of TriageLine with the two digests in the other order.
TriageLineFullFirst(tarinfo, first, full) ==
  Decimal(tarinfo.size) \o <<TAB>> \o HexDigest(full) \o <<TAB>>
    \o HexDigest(first) \o <<TAB>> \o tarinfo.name

TriageLine(tarinfo, first, full) ==
  Decimal(tarinfo.size) \o <<TAB>> \o HexDigest(first) \o <<TAB>>
    \o HexDigest(full) \o <<TAB>> \o tarinfo.name


(***************************************************************************)
(* The payload reader.                                                     *)
(***************************************************************************)
Max(a, b) == IF a >= b THEN a ELSE b

\* fileobj.read(n) on the ExFileObject of next_file: at most the bytes left of the
\* payload; what its buffer lacks is pulled from the stream, with read-ahead, and
\* a stream that ends inside the payload raises ReadError.
ExRead(n) ==
  LET base == next_file.offset_data
      k == Min(n, next_file.size - fo_pos)
      raw == tf_pos - base
      buffered == raw - fo_pos
      pull == Min(next_file.size - raw, Max(k - buffered, READAHEAD))
  IN IF k <= buffered
     THEN [data |-> SubSeq(input, base + fo_pos + 1, base + fo_pos + k),
           pos |-> tf_pos, want |-> tf_pos, exc |-> ""]
     ELSE IF tf_pos + pull > Len(input)
     THEN [data |-> <<>>, pos |-> Len(input), want |-> tf_pos + pull,
           exc |-> "ReadError"]
     ELSE [data |-> SubSeq(input, base + fo_pos + 1, base + fo_pos + k),
           pos |-> tf_pos + pull, want |-> tf_pos + pull, exc |-> ""]

\* The lengths a read(n) may return from a reader that promises only "up to n
\* bytes, nothing at the end": one byte, half, or all of what could be returned.
ReadLens(n, left) ==
  IF left = 0 THEN {0}
  ELSE {1, Min(n, left)} \cup ({Min(n, left) \div 2} \ {0})

(***************************************************************************)
(* Main                                                                    *)
(***************************************************************************)
Init ==
  /\ archive \in Archives
  /\ input = ArchiveBytes(archive)
  /\ args \in ArgSets
  /\ in_pos = 0
  /\ stdout = <<>>
  /\ stdout_text = <<>>
  /\ stderr = <<>>
  /\ out_file \in { [exists |-> FALSE, content |-> <<>>],
                    [exists |-> TRUE, content |-> OldContent] }
  /\ args.output = "-" => ~out_file.exists
  /\ input_fd = "stdin"
  /\ delimiter = <<>>
  /\ triage_fd = "none"
  /\ triage_writes = <<>>
  /\ pc = "main"
  /\ exc = ""
  /\ tf_offset = 0
  /\ tf_pos = 0
  /\ tf_firstmember = None
  /\ tf_members = <<>>
  /\ next_file = None
  /\ files_seen = 0
  /\ bytes_seen = 0
  /\ files_skipped = 0
  /\ fileobj = "none"
  /\ fo_pos = 0
  /\ first_hash = HashNew
  /\ full_hash = HashNew
  /\ c = <<>>
  /\ line = <<>>
  /\ runs = <<>>

\* Lines 161-180: the input, the tee, the delimiter.
MainSetup ==
  /\ pc = "main"
  /\ input_fd' = IF args.sink THEN "stdin" ELSE "IOTee"
  /\ delimiter' = IF args.null THEN <<NUL>> ELSE <<NL>>
  /\ pc' = "print"
  /\ UNCHANGED <<args, archive, input, runs, outVars, tarVars, countVars,
                 gtlVars, in_pos, stdout, exc, tf_pos, next_file>>

\* Line 182: print(args.output).  sys.stdout is a pipe or a file, as in the
\* documented use, so it is block buffered: the text stays pending in it until
\* the interpreter flushes it at exit.
MainPrint ==
  /\ pc = "print"
  /\ stdout_text' = stdout_text \o OutputName(args.output) \o <<NL>>
  /\ pc' = "open_output"
  /\ UNCHANGED <<mainVars, stderr, out_file, triage_fd, triage_writes, tarVars,
                 countVars, gtlVars, in_pos, stdout, exc, tf_pos, next_file>>

\* Lines 184-204: the record sink.
MainOpenOutput ==
  /\ pc = "open_output"
  /\ IF args.output = "-"
     THEN /\ triage_fd' = "stdout"
          /\ pc' = "tar_open"
          /\ UNCHANGED <<out_file, exc>>
     ELSE LET mode == OpenMode(out_file.exists, args.overwrite_sum, args.append)
          IN IF mode \in {"ab", "wb"}
             THEN /\ out_file' = OpenFile(out_file, mode)
                  /\ triage_fd' = "file"
                  /\ pc' = "tar_open"
                  /\ UNCHANGED exc
             ELSE /\ exc' = mode
                  /\ pc' = "exit"
                  /\ UNCHANGED <<out_file, triage_fd>>
  /\ UNCHANGED <<mainVars, stdout_text, stderr, triage_writes, tarVars, countVars,
                 gtlVars, in_pos, stdout, tf_pos, next_file>>


(***************************************************************************)
(* ProcessTarPipe                                                          *)
(***************************************************************************)
\* Lines 77-79: tarfile.open reads the first header and keeps it as firstmember.
TarOpen ==
  /\ pc = "tar_open"
  /\ \E r \in {TarFileNext} :
        /\ tf_pos' = r.pos
        /\ tf_offset' = r.offset
        /\ in_pos' = FillTo(in_pos, r.want)
        /\ stdout' = TeeWrite(stdout, in_pos, FillTo(in_pos, r.want))
        /\ exc' = r.exc
        /\ IF r.exc # ""
           THEN pc' = "exit" /\ UNCHANGED <<tf_firstmember, tf_members>>
           ELSE /\ pc' = "first_next"
                /\ tf_firstmember' = r.ret
                /\ tf_members' = IF r.ret # None THEN Append(tf_members, r.ret)
                                 ELSE tf_members
  /\ UNCHANGED <<mainVars, outVars, countVars, gtlVars, next_file>>

\* next_file = tf.next(), after `members` has been assigned to tf.members.
TfNext(members) ==
  \E r \in {TarFileNext} :
     /\ tf_pos' = r.pos
     /\ tf_offset' = r.offset
     /\ in_pos' = FillTo(in_pos, r.want)
     /\ stdout' = TeeWrite(stdout, in_pos, FillTo(in_pos, r.want))
     /\ tf_firstmember' = None
     /\ tf_members' = IF tf_firstmember = None /\ r.ret # None
                      THEN Append(members, r.ret) ELSE members
     /\ exc' = r.exc
     /\ IF r.exc # ""
        THEN pc' = "exit" /\ UNCHANGED next_file
        ELSE pc' = "loop" /\ next_file' = r.ret

\* Lines 81-85
FirstNext ==
  /\ pc = "first_next"
  /\ TfNext(tf_members)
  /\ files_seen' = 0
  /\ bytes_seen' = 0
  /\ files_skipped' = 0
  /\ UNCHANGED <<mainVars, outVars, gtlVars>>

\* Line 87, the loop left
LoopEnd ==
  /\ pc = "loop"
  /\ next_file = None
  /\ pc' = "warn"
  /\ UNCHANGED <<mainVars, outVars, tarVars, countVars, gtlVars, in_pos, stdout,
                 exc, tf_pos, next_file>>

\* A variant of RegBegin that does not count the file.
RegBeginUncounted ==
  /\ pc = "loop"
  /\ next_file # None
  /\ IsReg(next_file)
  /\ bytes_seen' = bytes_seen + next_file.size
  /\ fileobj' = "ExFileObject"
  /\ fo_pos' = 0
  /\ first_hash' = HashNew
  /\ full_hash' = HashNew
  /\ pc' = "gtl_read"
  /\ UNCHANGED <<mainVars, outVars, tarVars, files_seen, files_skipped, c, line,
                 in_pos, stdout, exc, tf_pos, next_file>>

\* Lines 87-93 and 42-43: a regular file is counted, its reader made, and
\* GetTriageLine entered.
RegBegin ==
  /\ pc = "loop"
  /\ next_file # None
  /\ IsReg(next_file)
  /\ files_seen' = files_seen + 1
  /\ bytes_seen' = bytes_seen + next_file.size
  /\ fileobj' = "ExFileObject"
  /\ fo_pos' = 0
  /\ first_hash' = HashNew
  /\ full_hash' = HashNew
  /\ pc' = "gtl_read"
  /\ UNCHANGED <<mainVars, outVars, tarVars, files_skipped, c, line, in_pos, stdout,
                 exc, tf_pos, next_file>>

\* A variant of Skip that counts the member as seen as well.
SkipCountsSeen ==
  /\ pc = "loop"
  /\ next_file # None
  /\ ~IsReg(next_file)
  /\ files_skipped' = files_skipped + 1
  /\ files_seen' = files_seen + 1
  /\ pc' = "advance"
  /\ UNCHANGED <<mainVars, outVars, tarVars, bytes_seen, gtlVars, in_pos,
                 stdout, exc, tf_pos, next_file>>

\* A variant of Skip that adds the skipped member's size to bytes_seen.
SkipCountsBytes ==
  /\ pc = "loop"
  /\ next_file # None
  /\ ~IsReg(next_file)
  /\ files_skipped' = files_skipped + 1
  /\ bytes_seen' = bytes_seen + next_file.size
  /\ pc' = "advance"
  /\ UNCHANGED <<mainVars, outVars, tarVars, files_seen, gtlVars, in_pos,
                 stdout, exc, tf_pos, next_file>>

\* Lines 87-89, 97-98
Skip ==
  /\ pc = "loop"
  /\ next_file # None
  /\ ~IsReg(next_file)
  /\ files_skipped' = files_skipped + 1
  /\ pc' = "advance"
  /\ UNCHANGED <<mainVars, outVars, tarVars, files_seen, bytes_seen, gtlVars, in_pos,
                 stdout, exc, tf_pos, next_file>>

\* What fileobj.read(n) may do: the ExFileObject of tarfile returns all it can; a
\* reader that is the transport itself returns any of ReadLens.
Reads(n) ==
  IF fileobj = "raw"
  THEN { [data |-> SubSeq(input, in_pos + 1, in_pos + k), pos |-> tf_pos,
          in |-> in_pos + k, exc |-> ""] : k \in ReadLens(n, Len(input) - in_pos) }
  ELSE LET r == ExRead(n)
       IN { [data |-> r.data, pos |-> r.pos, in |-> FillTo(in_pos, r.want),
             exc |-> r.exc] }

\* A variant of ReadInto that takes a failed read for the end of the data.
ReadIntoSwallows(r) ==
  /\ tf_pos' = r.pos
  /\ in_pos' = r.in
  /\ stdout' = TeeWrite(stdout, in_pos, r.in)
  /\ exc' = ""
  /\ pc' = "gtl_loop"
  /\ c' = r.data
  /\ fo_pos' = fo_pos + Len(r.data)

\* c = fileobj.read(n)
ReadInto(r) ==
  /\ tf_pos' = r.pos
  /\ in_pos' = r.in
  /\ stdout' = TeeWrite(stdout, in_pos, r.in)
  /\ exc' = r.exc
  /\ IF r.exc # ""
     THEN pc' = "exit" /\ UNCHANGED <<c, fo_pos>>
     ELSE pc' = "gtl_loop" /\ c' = r.data /\ fo_pos' = fo_pos + Len(r.data)

\* A variant of GtlFirstRead that feeds the first chunk to the full accumulator
\* as well, before the loop feeds it again.
GtlFirstReadFeedsBoth ==
  /\ pc = "gtl_read"
  /\ \E r \in Reads(FIRST_READ) :
       /\ ReadInto(r)
       /\ first_hash' = IF r.exc = "" THEN HashUpdate(first_hash, r.data)
                        ELSE first_hash
       /\ full_hash' = IF r.exc = "" THEN HashUpdate(full_hash, r.data)
                       ELSE full_hash
  /\ UNCHANGED <<mainVars, outVars, tarVars, countVars, fileobj, line, next_file>>

\* Lines 45-46
GtlFirstRead ==
  /\ pc = "gtl_read"
  /\ \E r \in Reads(FIRST_READ) :
       /\ ReadInto(r)
       /\ first_hash' = IF r.exc = "" THEN HashUpdate(first_hash, r.data)
                        ELSE first_hash
  /\ UNCHANGED <<mainVars, outVars, tarVars, countVars, fileobj, full_hash, line,
                 next_file>>

\* A variant of GtlLoop that reads the next chunk before it feeds the
\* accumulator: the first chunk never reaches the full digest.
GtlLoopReadsFirst ==
  /\ pc = "gtl_loop"
  /\ c # <<>>
  /\ \E r \in Reads(CHUNK_READ) :
       /\ ReadInto(r)
       /\ full_hash' = IF r.exc = "" THEN HashUpdate(full_hash, r.data)
                       ELSE full_hash
  /\ UNCHANGED <<mainVars, outVars, tarVars, countVars, fileobj, first_hash, line,
                 next_file>>

\* Lines 47-49
GtlLoop ==
  /\ pc = "gtl_loop"
  /\ c # <<>>
  /\ full_hash' = HashUpdate(full_hash, c)
  /\ \E r \in Reads(CHUNK_READ) : ReadInto(r)
  /\ UNCHANGED <<mainVars, outVars, tarVars, countVars, fileobj, first_hash, line,
                 next_file>>

\* A variant of GtlReturn that leaves the loop after any chunk (an `if c` where
\* the code has `while c`).
GtlReturnAfterAnyChunk ==
  /\ pc = "gtl_loop"
  /\ line' = TriageLine(next_file, first_hash, full_hash)
  /\ pc' = IF fileobj = "raw" THEN "returned" ELSE "write_line"
  /\ UNCHANGED <<mainVars, outVars, tarVars, countVars, fileobj, fo_pos, first_hash,
                 full_hash, c, in_pos, stdout, exc, tf_pos, next_file>>

\* Lines 47, 51-53: the loop left, the line returned (to ProcessTarPipe, or to
\* whoever called GetTriageLine with a reader of their own).
GtlReturn ==
  /\ pc = "gtl_loop"
  /\ c = <<>>
  /\ line' = TriageLine(next_file, first_hash, full_hash)
  /\ pc' = IF fileobj = "raw" THEN "returned" ELSE "write_line"
  /\ UNCHANGED <<mainVars, outVars, tarVars, countVars, fileobj, fo_pos, first_hash,
                 full_hash, c, in_pos, stdout, exc, tf_pos, next_file>>

\* triage_fd.write(data)
TriageWrite(data) ==
  /\ triage_writes' = Append(triage_writes, data)
  /\ IF triage_fd = "stdout"
     THEN stdout' = Append(stdout, WriteOf(data)) /\ UNCHANGED out_file
     ELSE out_file' = [out_file EXCEPT !.content = @ \o data] /\ UNCHANGED stdout

\* Lines 92-94
WriteLine ==
  /\ pc = "write_line"
  /\ TriageWrite(FsEncode(line))
  /\ pc' = "write_delim"
  /\ UNCHANGED <<mainVars, stdout_text, stderr, triage_fd, tarVars, countVars,
                 gtlVars, in_pos, exc, tf_pos, next_file>>

\* Line 96
WriteDelimiter ==
  /\ pc = "write_delim"
  /\ TriageWrite(delimiter)
  /\ pc' = "advance"
  /\ UNCHANGED <<mainVars, stdout_text, stderr, triage_fd, tarVars, countVars,
                 gtlVars, in_pos, exc, tf_pos, next_file>>

\* A variant of Advance without line 101: tf.members is not cleared.
AdvanceKeepsMembers ==
  /\ pc = "advance"
  /\ TfNext(tf_members)
  /\ UNCHANGED <<mainVars, outVars, countVars, gtlVars>>

\* Lines 100-102
Advance ==
  /\ pc = "advance"
  /\ TfNext(<<>>)
  /\ UNCHANGED <<mainVars, outVars, countVars, gtlVars>>

\* A variant of Warn that writes the warning whatever files_skipped is.
WarnAlways ==
  /\ pc = "warn"
  /\ stderr' = Append(stderr, [msg |-> "Warning: Skipped", a |-> files_skipped,
                               b |-> 0])
  /\ pc' = "summary"
  /\ UNCHANGED <<mainVars, stdout_text, out_file, triage_fd, triage_writes, tarVars,
                 countVars, gtlVars, in_pos, stdout, exc, tf_pos, next_file>>

\* Lines 104-105
Warn ==
  /\ pc = "warn"
  /\ stderr' = IF files_skipped > 0
               THEN Append(stderr, [msg |-> "Warning: Skipped", a |-> files_skipped,
                                    b |-> 0])
               ELSE stderr
  /\ pc' = "summary"
  /\ UNCHANGED <<mainVars, stdout_text, out_file, triage_fd, triage_writes, tarVars,
                 countVars, gtlVars, in_pos, stdout, exc, tf_pos, next_file>>

\* Lines 107-109 (b is the number handed to humanize.naturalsize)
Summary ==
  /\ pc = "summary"
  /\ stderr' = Append(stderr, [msg |-> "Processed", a |-> files_seen,
                               b |-> bytes_seen])
  /\ pc' = "exit"
  /\ UNCHANGED <<mainVars, stdout_text, out_file, triage_fd, triage_writes, tarVars,
                 countVars, gtlVars, in_pos, stdout, exc, tf_pos, next_file>>

\* Lines 209-210: Main returns or an exception leaves it; the interpreter prints
\* the traceback and flushes sys.stdout.
Exit ==
  /\ pc = "exit"
  /\ stdout' = IF stdout_text # <<>> THEN Append(stdout, WriteOf(stdout_text))
               ELSE stdout
  /\ stdout_text' = <<>>
  /\ stderr' = IF exc # "" THEN Append(stderr, [msg |-> exc, a |-> 0, b |-> 0])
               ELSE stderr
  /\ pc' = "done"
  /\ UNCHANGED <<mainVars, out_file, triage_fd, triage_writes, tarVars, countVars,
                 gtlVars, in_pos, exc, tf_pos, next_file>>

Next ==
  \/ MainSetup \/ MainPrint \/ MainOpenOutput
  \/ TarOpen \/ FirstNext \/ LoopEnd \/ RegBegin \/ Skip
  \/ GtlFirstRead \/ GtlLoop \/ GtlReturn
  \/ WriteLine \/ WriteDelimiter \/ Advance
  \/ Warn \/ Summary \/ Exit

Spec == Init /\ [][Next]_vars

\* The program is a single sequential process that is never held up for good:
\* whenever it has a next step it takes one.  (Run with --sink and the newline
\* delimiter, on every archive and every choice of output.)
InitLive == Init /\ args.sink /\ ~args.null

SpecLive == InitLive /\ [][Next]_vars /\ WF_vars(Next)


(***************************************************************************)
(* GetTriageLine called on its own, with a reader that is the transport    *)
(* itself: fileobj.read(n) returns up to n bytes, and nothing at the end.  *)
(***************************************************************************)
\* The payload lengths GetTriageLine is driven with.
ReaderSizes == {0, 1, 2, 5, 511, 512, 513, 600}

InitReader ==
  /\ \E n \in ReaderSizes :
       /\ archive = [items |-> <<Member(REGTYPE, NameA, n)>>, trailer |-> 0]
       /\ input = Payload(n + Len(NameA), n)
       /\ next_file = [name |-> Utf8Decode(NameA), size |-> n, type |-> REGTYPE,
                       offset |-> 0, offset_data |-> 0]
  /\ args = [sink |-> TRUE, null |-> FALSE, output |-> "-",
             overwrite_sum |-> FALSE, append |-> FALSE]
  /\ in_pos = 0
  /\ stdout = <<>>
  /\ stdout_text = <<>>
  /\ stderr = <<>>
  /\ out_file = [exists |-> FALSE, content |-> <<>>]
  /\ input_fd = "stdin"
  /\ delimiter = <<NL>>
  /\ triage_fd = "none"
  /\ triage_writes = <<>>
  /\ pc = "gtl_read"
  /\ exc = ""
  /\ tf_offset = 0
  /\ tf_pos = 0
  /\ tf_firstmember = None
  /\ tf_members = <<>>
  /\ files_seen = 0
  /\ bytes_seen = 0
  /\ files_skipped = 0
  /\ fileobj = "raw"
  /\ fo_pos = 0
  /\ first_hash = HashNew
  /\ full_hash = HashNew
  /\ c = <<>>
  /\ line = <<>>
  /\ runs = <<>>

NextReader == GtlFirstRead \/ GtlLoop \/ GtlReturn

SpecReader == InitReader /\ [][NextReader]_vars

\* The program and GetTriageLine on its own, together.
SpecAll == (Init \/ InitReader) /\ [][Next]_vars


(***************************************************************************)
(* The program run again: once a run has ended, the same command line is   *)
(* started anew on the same input, against the output file as the run left *)
(* it.  The first run finds no output file.                                *)
(***************************************************************************)
InitRerun ==
  /\ Init
  /\ args.output # "-"
  /\ args.append \/ args.overwrite_sum
  /\ ~out_file.exists

\* Lines 209-210, once more: a new process, the file system as it is.
Rerun ==
  /\ pc = "done"
  /\ Len(runs) < MaxRuns - 1
  /\ runs' = Append(runs, out_file.content)
  /\ in_pos' = 0
  /\ stdout' = <<>>
  /\ stdout_text' = <<>>
  /\ stderr' = <<>>
  /\ input_fd' = "stdin"
  /\ delimiter' = <<>>
  /\ triage_fd' = "none"
  /\ triage_writes' = <<>>
  /\ pc' = "main"
  /\ exc' = ""
  /\ tf_offset' = 0
  /\ tf_pos' = 0
  /\ tf_firstmember' = None
  /\ tf_members' = <<>>
  /\ next_file' = None
  /\ files_seen' = 0
  /\ bytes_seen' = 0
  /\ files_skipped' = 0
  /\ fileobj' = "none"
  /\ fo_pos' = 0
  /\ first_hash' = HashNew
  /\ full_hash' = HashNew
  /\ c' = <<>>
  /\ line' = <<>>
  /\ UNCHANGED <<args, archive, input, out_file>>

NextRerun == Next \/ Rerun

SpecRerun == InitRerun /\ [][NextRerun]_vars


(***************************************************************************)
(* The program on an input that ends early: the stream of an archive cut   *)
(* inside its last item (inside the header, the payload or the padding).   *)
(***************************************************************************)
\* Where the input is cut, counted from the start of the last item.
CutOffsets == {100, 512, 514, 517, 700, 1024, 1025, 1030}

InitTrunc ==
  /\ archive \in {a \in Archives : a.items # <<>> /\ a.trailer = 0}
  /\ \E d \in CutOffsets :
        LET before == Len(ItemsBytes(SubSeq(archive.items, 1, Len(archive.items) - 1)))
            whole == ArchiveBytes(archive)
        IN /\ before + d < Len(whole)
           /\ input = SubSeq(whole, 1, before + d)
  /\ args \in {a \in ArgSets : ~a.overwrite_sum /\ ~a.append}
  /\ in_pos = 0
  /\ stdout = <<>>
  /\ stdout_text = <<>>
  /\ stderr = <<>>
  /\ out_file = [exists |-> FALSE, content |-> <<>>]
  /\ input_fd = "stdin"
  /\ delimiter = <<>>
  /\ triage_fd = "none"
  /\ triage_writes = <<>>
  /\ pc = "main"
  /\ exc = ""
  /\ tf_offset = 0
  /\ tf_pos = 0
  /\ tf_firstmember = None
  /\ tf_members = <<>>
  /\ next_file = None
  /\ files_seen = 0
  /\ bytes_seen = 0
  /\ files_skipped = 0
  /\ fileobj = "none"
  /\ fo_pos = 0
  /\ first_hash = HashNew
  /\ full_hash = HashNew
  /\ c = <<>>
  /\ line = <<>>
  /\ runs = <<>>

SpecTrunc == InitTrunc /\ [][Next]_vars


(***************************************************************************)
(* What the properties speak of: the archive as written, and the record    *)
(* sink as a reader of it sees it.                                         *)
(***************************************************************************)
IsMember(it) == ~it.zero
IsRegMember(it) == ~it.zero /\ it.type = REGTYPE
IsNonRegMember(it) == ~it.zero /\ it.type # REGTYPE

MemberItems(a) == SelectSeq(a.items, IsMember)
RegItems(a) == SelectSeq(a.items, IsRegMember)
NonRegItems(a) == SelectSeq(a.items, IsNonRegMember)

\* An archive as tar writes it: members only, then two zero blocks.
WellFormed(a) == a.trailer = 2 /\ \A i \in 1..Len(a.items) : ~a.items[i].zero

\* The bytes stored for a member.
ItemPayload(it) == Payload(it.size + Len(it.name), it.size)

RECURSIVE SumSizes(_)
SumSizes(its) == IF its = <<>> THEN 0 ELSE Head(its).size + SumSizes(Tail(its))

\* The blocks an item takes in the stream, and where item i starts.
ItemBlocks(it) == IF it.zero THEN 1 ELSE 1 + (it.size + BLOCKSIZE - 1) \div BLOCKSIZE

RECURSIVE ItemStart(_, _)
ItemStart(a, i) ==
  IF i = 1 THEN 0 ELSE ItemStart(a, i - 1) + BLOCKSIZE * ItemBlocks(a.items[i - 1])

\* ProcessTarPipe has left its loop: the whole stream was consumed.
LoopLeft == pc \in {"warn", "summary"} \/ (pc \in {"exit", "done"} /\ exc = "")

\* Everything ProcessTarPipe wrote to the record sink.
SinkBytes == Flatten(triage_writes)

CountByte(b, s) == Cardinality({i \in 1..Len(s) : s[i] = b})

\* Records end with the delimiter, and no record of this model holds a newline
\* or a null byte: the records in the sink are as many as its delimiter bytes.
RecordsWritten == CountByte(delimiter[1], SinkBytes)

(***************************************************************************)
(* C1: after a full run over a well-formed archive the records written to  *)
(* the sink are as many as the archive's regular files, and files_skipped  *)
(* is the number of its other members.                                     *)
(***************************************************************************)
C1_RecordsAndSkips ==
  (WellFormed(archive) /\ LoopLeft) =>
     /\ RecordsWritten = Len(RegItems(archive))
     /\ files_skipped = Len(NonRegItems(archive))

\* A full run over a well-formed archive with a regular file and another member.
C1_Witness ==
  /\ pc = "done" /\ exc = ""
  /\ WellFormed(archive)
  /\ Len(RegItems(archive)) >= 1
  /\ Len(NonRegItems(archive)) >= 1
  /\ RecordsWritten >= 1
  /\ files_skipped >= 1

(***************************************************************************)
(* C5: after a full run over a well-formed archive bytes_seen is the sum   *)
(* of the sizes of the regular files; other members add nothing to it.     *)
(***************************************************************************)
C5_BytesSeen ==
  (WellFormed(archive) /\ LoopLeft) => bytes_seen = SumSizes(RegItems(archive))

\* A full run over a regular file with content and another member that
\* declares a size.
C5_Witness ==
  /\ pc = "done" /\ exc = ""
  /\ WellFormed(archive)
  /\ bytes_seen > 0
  /\ SumSizes(NonRegItems(archive)) > 0


(***************************************************************************)
(* Reading a record back.                                                  *)
(***************************************************************************)
\* s split at its first n tabs: n + 1 fields, or fewer when tabs are missing.
RECURSIVE SplitTab(_, _)
SplitTab(s, n) ==
  IF n = 0 \/ \A i \in 1..Len(s) : s[i] # TAB
  THEN <<s>>
  ELSE LET i == CHOOSE k \in 1..Len(s) :
                   s[k] = TAB /\ \A j \in 1..(k - 1) : s[j] # TAB
       IN <<SubSeq(s, 1, i - 1)>> \o SplitTab(SubSeq(s, i + 1, Len(s)), n - 1)

\* The four fields of a record, and of the line GetTriageLine returned.
Fields(rec) == SplitTab(rec, 3)

RECURSIVE DecimalValue(_)
DecimalValue(d) ==
  IF d = <<>> THEN 0 ELSE 10 * DecimalValue(SubSeq(d, 1, Len(d) - 1)) + (d[Len(d)] - 48)

\* d is the decimal numeral of n.
IsDecimalOf(d, n) ==
  /\ Len(d) >= 1
  /\ \A i \in 1..Len(d) : d[i] \in 48..57
  /\ Len(d) > 1 => d[1] # 48
  /\ DecimalValue(d) = n

\* The digest of a byte string fed in one piece.
DigestOf(bytes) == HexDigest(HashUpdate(HashNew, bytes))

\* The regular file GetTriageLine is working on, or has just returned from: the
\* one after those whose record and delimiter are in the sink.
CurrentReg == RegItems(archive)[Len(triage_writes) \div 2 + 1]

\* GetTriageLine has returned its line.
Returned == pc \in {"write_line", "returned"}

(***************************************************************************)
(* C2: the full-content digest of the line GetTriageLine returns is the    *)
(* hash of exactly the member's payload, each of the size bytes fed once   *)
(* and in order, however the reads split the payload into chunks.          *)
(***************************************************************************)
C2_FullDigest ==
  Returned =>
     /\ Len(Fields(line)) = 4
     /\ Fields(line)[3] = Utf8Decode(DigestOf(ItemPayload(CurrentReg)))
     /\ full_hash.n = CurrentReg.size

\* A 600-byte payload whose first read returned one byte: the payload reached
\* the accumulator in three chunks or more.
C2_Witness ==
  /\ pc = "returned"
  /\ next_file.size = 600
  /\ first_hash.n = 1
  /\ full_hash.n = 600

(***************************************************************************)
(* C3 as stated: the first-chunk digest of the line is the hash of the     *)
(* leading min(512, size) bytes of the payload, also when read(512)        *)
(* returns fewer bytes than that although more payload remains.            *)
(***************************************************************************)
C3_FirstDigestLeading ==
  Returned =>
     Fields(line)[2] =
        Utf8Decode(DigestOf(SubSeq(ItemPayload(CurrentReg), 1,
                                   Min(FIRST_READ, CurrentReg.size))))

(***************************************************************************)
(* C4: in an emitted record of a member shorter than 512 bytes the first-  *)
(* chunk digest equals the full digest; for a zero-length member both are  *)
(* the digest of the empty byte string and the size field is 0.            *)
(***************************************************************************)
C4_ShortPayloadDigests ==
  pc = "write_delim" =>
     LET f == Fields(triage_writes[Len(triage_writes)])
         m == CurrentReg
     IN /\ m.size < 512 => f[2] = f[3]
        /\ m.size = 0 => /\ f[1] = <<48>>
                         /\ f[2] = DigestOf(<<>>)
                         /\ f[3] = DigestOf(<<>>)

\* The record of a zero-length member emitted after the record of a 5-byte one.
C4_Witness ==
  /\ pc = "write_delim"
  /\ Len(triage_writes) = 3
  /\ RegItems(archive)[1].size = 5
  /\ RegItems(archive)[2].size = 0
  /\ Fields(triage_writes[1])[2] = Fields(triage_writes[1])[3]
  /\ Fields(triage_writes[3])[1] = <<48>>


(***************************************************************************)
(* C6 as stated: once a zero block has been read the member sequence       *)
(* ends; no member that follows a zero block in the stream is yielded.     *)
(***************************************************************************)
\* Item i of the archive lies behind a zero block.
AfterZeroBlock(a, i) == \E j \in 1..(i - 1) : a.items[j].zero

C7_TeeExactlyInput ==
  (pc = "done" /\ fileobj # "raw" /\ ~args.sink /\ args.output # "-") =>
     StdoutBytes = SubSeq(input, 1, in_pos)

(***************************************************************************)
(* C8: the bytes written to the record sink are, in archive order, one     *)
(* record per regular file (decimal size, tab, first-chunk digest, tab,    *)
(* full digest, tab, name), each at once followed by the configured        *)
(* delimiter, and nothing else.                                            *)
(***************************************************************************)
ConfiguredDelimiter == IF args.null THEN <<NUL>> ELSE <<NL>>

\* The two digests a record of each member of Items has to show: of the
\* leading 512 bytes of its payload, and of all of it.
ExpectedDigests ==
  [m \in {it \in Items : ~it.zero} |->
     [first |-> DigestOf(SubSeq(ItemPayload(m), 1, Min(512, m.size))),
      full |-> DigestOf(ItemPayload(m))]]

\* rec is the record of member m.
IsRecordOf(rec, m) ==
  LET f == Fields(rec)
  IN /\ Len(f) = 4
     /\ IsDecimalOf(f[1], m.size)
     /\ f[2] = ExpectedDigests[m].first
     /\ f[3] = ExpectedDigests[m].full
     /\ f[4] = m.name

C8_SinkContent ==
  fileobj # "raw" =>
     LET k == Len(triage_writes)
         regs == RegItems(archive)
     IN /\ k <= 2 * Len(regs)
        /\ \A i \in 1..k :
              IF i % 2 = 1 THEN IsRecordOf(triage_writes[i], regs[(i + 1) \div 2])
              ELSE triage_writes[i] = ConfiguredDelimiter
        /\ (k % 2 = 1) <=> (pc = "write_delim")
        /\ LoopLeft => k = 2 * Len(regs)
        /\ triage_fd = "file" =>
              \E old \in {<<>>, OldContent} : out_file.content = old \o SinkBytes
        /\ (triage_fd = "stdout" /\ args.sink /\ pc # "done") => StdoutBytes = SinkBytes

\* A full run with --null that wrote two records to a file.
C8_Witness ==
  /\ pc = "done" /\ exc = ""
  /\ args.null
  /\ triage_fd = "file"
  /\ Len(triage_writes) = 4
  /\ triage_writes[2] = <<NUL>>
  /\ RegItems(archive)[1] # RegItems(archive)[2]

(***************************************************************************)
(* C9: every header read starts at a multiple of the block size; after a   *)
(* regular file whose size is no multiple of 512, payload and padding      *)
(* consumed end on the next block boundary and the header read there is    *)
(* the header of the member that follows.                                  *)
(***************************************************************************)
C9_HeaderAtBlockBoundary ==
  fileobj # "raw" =>
     /\ tf_offset % BLOCKSIZE = 0
     /\ pc = "loop" => tf_pos % BLOCKSIZE = 0
     /\ next_file # None =>
           /\ next_file.offset % BLOCKSIZE = 0
           /\ \E i \in 1..Len(archive.items) :
                 /\ ItemStart(archive, i) = next_file.offset
                 /\ ~archive.items[i].zero
                 /\ next_file.name = Utf8Decode(archive.items[i].name)
                 /\ next_file.size = archive.items[i].size
                 /\ next_file.type = archive.items[i].type

\* The member that follows a regular file of 513 bytes has been read.
C9_Witness ==
  /\ pc = "loop"
  /\ Len(archive.items) = 2
  /\ IsRegMember(archive.items[1])
  /\ archive.items[1].size = 513
  /\ next_file # None
  /\ next_file.offset = 3 * BLOCKSIZE
  /\ next_file.name = Utf8Decode(archive.items[2].name)

(***************************************************************************)
(* C10 as stated: when the output path exists and neither --overwrite_sum  *)
(* nor --append is given, Main fails at startup: no byte was read from the *)
(* input, none written to standard output or to the output file, and the   *)
(* file is as it was.                                                      *)
(***************************************************************************)
C10_ExistingOutputFailsClean ==
  (pc \in {"exit", "done"} /\ exc = "FileExistsError") =>
     /\ in_pos = 0
     /\ StdoutBytes = <<>>
     /\ out_file = [exists |-> TRUE, content |-> OldContent]


(***************************************************************************)
(* C11: the program run twice over the same input against the same output *)
(* file, which the first run creates: with --append the file ends up as    *)
(* the first run's output twice over; with --overwrite_sum the file after  *)
(* the second run is the output of one run.                                *)
(***************************************************************************)
RECURSIVE Repeat(_, _)
Repeat(s, n) == IF n = 0 THEN <<>> ELSE s \o Repeat(s, n - 1)

C11_RerunAppendOverwrite ==
  (pc = "done" /\ Len(runs) >= 1) =>
     out_file.content = IF args.append THEN Repeat(runs[1], Len(runs) + 1)
                        ELSE runs[1]

\* A second run with --append has ended, the first one having written records.
C11_Witness ==
  /\ pc = "done" /\ exc = ""
  /\ Len(runs) = 1
  /\ args.append
  /\ runs[1] # <<>>
  /\ out_file.content = runs[1] \o runs[1]


(***************************************************************************)
(* C12: when the input ends inside the payload of a regular file the run   *)
(* is aborted by an error, and the record sink holds only the complete     *)
(* records, each followed by its delimiter, of the regular files before    *)
(* it: nothing is written for the file cut short.                          *)
(***************************************************************************)
\* The last item of the archive, and where its header starts.
LastItem == archive.items[Len(archive.items)]
LastStart == ItemStart(archive, Len(archive.items))

\* The input ends inside the payload of the last item, a regular file.
EndsInPayload ==
  /\ archive.items # <<>>
  /\ IsRegMember(LastItem)
  /\ Len(input) >= LastStart + BLOCKSIZE
  /\ Len(input) < LastStart + BLOCKSIZE + LastItem.size

C12_NoRecordForCutMember ==
  EndsInPayload =>
     LET k == Len(triage_writes)
         regs == RegItems(archive)
     IN /\ k <= 2 * (Len(regs) - 1)
        /\ \A i \in 1..k :
              IF i % 2 = 1 THEN IsRecordOf(triage_writes[i], regs[(i + 1) \div 2])
              ELSE triage_writes[i] = ConfiguredDelimiter
        /\ triage_fd = "file" => out_file.content = SinkBytes
        /\ pc \notin {"warn", "summary"}
        /\ pc \in {"exit", "done"} =>
              /\ exc = "ReadError"
              /\ k = 2 * (Len(regs) - 1)

\* A run ended by the error, on an input cut after the first 512 of the 513
\* payload bytes of its second regular file; the record of the first is there.
C12_Witness ==
  /\ pc = "done" /\ exc = "ReadError"
  /\ EndsInPayload
  /\ LastItem.size = 513
  /\ Len(input) = LastStart + 1024
  /\ Len(triage_writes) = 2


(***************************************************************************)
(* C13 as stated: no diagnostic or informational message of the program    *)
(* gets into the byte stream of the record sink, whichever the output      *)
(* destination; with '-' the sink is standard output.  (The tee is off     *)
(* here, so that standard output carries the records only.)                *)
(***************************************************************************)
C13_SinkStreamRecordsOnly ==
  (fileobj # "raw" /\ triage_fd = "stdout" /\ args.sink) => StdoutBytes = SinkBytes

(***************************************************************************)
(* C14 as stated: when the input ends where a member header was expected,  *)
(* with no zero block before the end, the run ends cleanly: no error, the  *)
(* records of all regular files written, the summary emitted.              *)
(***************************************************************************)
\* The input ends right after the last member, with no zero block.
EndsAtHeader ==
  /\ archive.trailer = 0
  /\ Len(input) = Len(ArchiveBytes(archive))
  /\ archive.items # <<>> => ~archive.items[Len(archive.items)].zero

\* The messages ProcessTarPipe has written to sys.stderr, by kind.
Messages(kind) == SelectSeq(stderr, LAMBDA m : m.msg = kind)

C14_CleanEndAtHeader ==
  (fileobj # "raw" /\ triage_fd # "none" /\ EndsAtHeader /\ pc = "done") =>
     /\ exc = ""
     /\ Len(triage_writes) = 2 * Len(RegItems(archive))
     /\ Len(Messages("Processed")) = 1


(***************************************************************************)
(* C15: the next header is never requested while payload of the regular    *)
(* file at hand is unread: once GetTriageLine has returned, and so when    *)
(* tf.next() is called, the payload reader has returned all size bytes and *)
(* its last read returned nothing.                                         *)
(***************************************************************************)
\* GetTriageLine has returned to ProcessTarPipe, which has not yet got the next
\* member.
AfterGetTriageLine ==
  /\ fileobj = "ExFileObject"
  /\ \/ pc \in {"write_line", "write_delim"}
     \/ pc = "advance" /\ next_file.type = REGTYPE

C15_PayloadDrainedBeforeNext ==
  AfterGetTriageLine =>
     /\ fo_pos = next_file.size
     /\ c = <<>>
     /\ tf_pos >= next_file.offset_data + next_file.size

\* tf.next() is about to be called after a regular file of 513 bytes.
C15_Witness ==
  /\ pc = "advance"
  /\ fileobj = "ExFileObject"
  /\ next_file.type = REGTYPE
  /\ next_file.size = 513
  /\ fo_pos = 513
  /\ c = <<>>


(***************************************************************************)
(* C16: processing a member that is not a regular file changes only        *)
(* files_skipped, by one: no payload reader is opened, nothing is written  *)
(* to the record sink, files_seen and bytes_seen stay as they are.  (The   *)
(* step that follows, tf.next(), moves the archive on and touches none of  *)
(* these either.)                                                          *)
(***************************************************************************)
\* A member that is no regular file is at hand.
NonRegularAtHand ==
  /\ fileobj # "raw"
  /\ pc \in {"loop", "advance"}
  /\ next_file # None
  /\ next_file.type # REGTYPE

C16_SkipFrame ==
  [][NonRegularAtHand =>
       /\ UNCHANGED <<files_seen, bytes_seen, triage_writes, out_file, triage_fd,
                      stderr, stdout_text, gtlVars, mainVars>>
       /\ pc = "loop" =>
             /\ files_skipped' = files_skipped + 1
             /\ pc' = "advance"
             /\ UNCHANGED <<tarVars, tf_pos, in_pos, stdout, next_file, exc>>
       /\ pc = "advance" => files_skipped' = files_skipped]_vars

\* A directory has been skipped after a regular file was processed.
C16_Witness ==
  /\ pc = "advance"
  /\ next_file # None
  /\ next_file.type = DIRTYPE
  /\ files_skipped = 1
  /\ files_seen = 1
  /\ Len(triage_writes) = 2


(***************************************************************************)
(* C17: every run comes to its end, and a run that no error ends writes    *)
(* the summary exactly once, to sys.stderr, after the last record has been *)
(* written; the warning about skipped members is written only when         *)
(* files_skipped > 0.                                                      *)
(***************************************************************************)
\* ProcessTarPipe has returned.
Returned17 == pc \in {"exit", "done"} /\ exc = ""

SummaryOnceAtEnd ==
  fileobj # "raw" =>
     /\ Len(Messages("Processed")) = IF Returned17 THEN 1 ELSE 0
     /\ Len(Messages("Warning: Skipped")) =
           IF (pc = "summary" \/ Returned17) /\ files_skipped > 0 THEN 1 ELSE 0
     /\ Returned17 =>
           /\ Len(triage_writes) = 2 * Len(RegItems(archive))
           /\ stderr[Len(stderr)] =
                 [msg |-> "Processed", a |-> files_seen, b |-> bytes_seen]
     /\ (pc = "exit" /\ exc = "") => stderr[Len(stderr)].msg = "Processed"

C17_TerminatesWithOneSummary ==
  /\ <>(pc = "done")
  /\ []SummaryOnceAtEnd

\* A run has ended with the warning and the summary written, in that order.
C17_Witness ==
  /\ pc = "done" /\ exc = ""
  /\ files_skipped > 0
  /\ Len(triage_writes) >= 2
  /\ Len(stderr) = 2
  /\ stderr[1].msg = "Warning: Skipped"
  /\ stderr[2].msg = "Processed"


(***************************************************************************)
(* C18: the archive object never retains more than the member at hand: at  *)
(* every point of the loop of ProcessTarPipe tf.members holds at most one  *)
(* member, however many the stream holds.                                  *)
(***************************************************************************)
C18_AtMostOneMemberRetained ==
  fileobj # "raw" =>
     /\ Len(tf_members) <= 1
     /\ (pc \in {"loop", "gtl_read", "gtl_loop", "write_line", "write_delim"}
           /\ next_file # None) => tf_members = <<next_file>>

\* The second member of the stream is at hand, and is all that is retained.
C18_Witness ==
  /\ pc = "loop"
  /\ next_file # None
  /\ files_seen + files_skipped = 1
  /\ next_file.offset > 0
  /\ tf_members = <<next_file>>

(***************************************************************************)
(* C19: in Main's choice of the open mode the last else branch (the raise  *)
(* of 'neither overwrite_sum or append are set') is never reached; the     *)
(* mode is 'ab' exactly when the file exists and --append is given, 'wb'   *)
(* when the file does not exist or exists with --overwrite_sum, and an     *)
(* error (FileExistsError) otherwise.                                      *)
(***************************************************************************)
C19_OpenModeSelection ==
  /\ exc # "NameError"
  /\ (pc = "open_output" /\ args.output # "-") =>
        LET mode == OpenMode(out_file.exists, args.overwrite_sum, args.append)
        IN /\ mode # "NameError"
           /\ mode = "ab" <=> (out_file.exists /\ args.append)
           /\ mode = "wb" <=> (~out_file.exists \/ args.overwrite_sum)
           /\ mode = "FileExistsError" <=>
                 (out_file.exists /\ ~args.overwrite_sum /\ ~args.append)
  /\ (pc = "tar_open" /\ triage_fd = "file") =>
        /\ out_file.exists
        /\ out_file.content \in {<<>>, OldContent}
        /\ out_file.content = OldContent => args.append
  /\ exc = "FileExistsError" =>
        /\ ~args.overwrite_sum /\ ~args.append
        /\ out_file = [exists |-> TRUE, content |-> OldContent]

\* An existing file has been opened with --append and kept what it held.
C19_Witness ==
  /\ pc = "tar_open"
  /\ triage_fd = "file"
  /\ args.append
  /\ out_file.content = OldContent

(***************************************************************************)
(* C20: at every turn of the loop of ProcessTarPipe files_seen +           *)
(* files_skipped is the number of members fully processed, files_seen is   *)
(* the number of records written to the sink (one more while a record is   *)
(* being produced), and none of the three counters ever decreases.         *)
(***************************************************************************)
\* The members of the archive that lie before the one at hand; all of them when
\* none is at hand.
MembersProcessed ==
  Cardinality({i \in 1..Len(archive.items) :
                 /\ ~archive.items[i].zero
                 /\ next_file # None => ItemStart(archive, i) < next_file.offset})

\* The records in the sink that have their delimiter.
RecordsDone == Len(triage_writes) \div 2

CountersAgree ==
  fileobj # "raw" =>
     /\ pc = "loop" =>
           /\ files_seen + files_skipped = MembersProcessed
           /\ files_seen = RecordsDone
           /\ Len(triage_writes) % 2 = 0
     /\ pc \in {"gtl_read", "gtl_loop", "write_line", "write_delim"} =>
           /\ files_seen = RecordsDone + 1
           /\ files_seen + files_skipped = MembersProcessed + 1
     /\ pc = "advance" =>
           /\ files_seen = RecordsDone
           /\ files_seen + files_skipped = MembersProcessed + 1

C20_LoopCounters ==
  /\ []CountersAgree
  /\ [][/\ files_seen' >= files_seen
        /\ bytes_seen' >= bytes_seen
        /\ files_skipped' >= files_skipped]_vars

\* The record of a second regular file is being produced.
C20_Witness ==
  /\ pc = "gtl_loop"
  /\ fileobj = "ExFileObject"
  /\ files_seen = 2
  /\ Len(triage_writes) = 2

=============================================================================
